---- MODULE Spec2Model ----
(***************************************************************************)
(* Model of castle-query: the Gmail ingestion pipeline (src/get_gmail.py)  *)
(* and the Qdrant query tool (src/query_qdrant.py).                        *)
(*                                                                         *)
(* Python strings are modelled as sequences of one-character strings, so   *)
(* that splitting, joining, lower-casing, quoting and slicing are computed *)
(* and not assumed.                                                        *)
(***************************************************************************)
EXTENDS Integers, Sequences, FiniteSets, TLC

\* ---------------------------------------------------------------- state

\* chunk_text applied to one document (get_gmail.py:99-102)
VARIABLES ctText, ctK, ctOut, ctPc

chunkVars == <<ctText, ctK, ctOut, ctPc>>

\* one attachment part going through extraction (get_gmail.py:53-96, 165-214)
VARIABLES atSite,      \* "extract": extract_attachment_text, "walk": walk_parts
          atFilename,  \* None or Some(characters)
          atRef,       \* the attachment reference: "missing", "valid", "invalid"
          atParse,     \* whether the document parser accepts the bytes
          atNumPages,  \* len(reader.pages)
          atDocLen,    \* length of the joined DOCX paragraphs
          atI,         \* pages on which extraction has been attempted
          atLen,       \* len(text) accumulated so far
          atResult,    \* what the caller gets
          atPc

attVars == <<atSite, atFilename, atRef, atParse, atNumPages, atDocLen, atI, atLen,
             atResult, atPc>>

\* the mail source, the cursor file, the vector store and one ingestion run
\* after another (get_gmail.py:105-140, 241-280)
VARIABLES mailbox,          \* the server's message ids, newest first
          srvHistoryId,     \* the server's current watermark
          srvHistory,       \* the server's change log: records [id, messages]
          arrivals,         \* changes of the mailbox so far
          cursorFile,       \* last_history_id.txt: None or Some(watermark)
          store,            \* the collection: point id -> point
          collectionExists,
          runs,             \* runs of main started so far
          pc,
          message_ids,      \* None or Some(list), as in fetch_new_messages
          historyOutcome,   \* "pending", "none" (no cursor), "ok", "failed"
          fallbackCalls,    \* calls of messages().list in this run
          listedFrom,       \* the mailbox as the fallback listing saw it
          fetched,          \* fetch_new_messages has returned in this run
          idx,              \* messages of message_ids processed so far
          points,
          point_id_counter

srvVars == <<mailbox, srvHistoryId, srvHistory, arrivals>>
runVars == <<pc, message_ids, historyOutcome, fallbackCalls, listedFrom, fetched,
             idx, points, point_id_counter>>
syncVars == <<srvVars, cursorFile, store, collectionExists, runs, runVars>>

\* one call of query_all_points (query_qdrant.py:55-175)
VARIABLES qColl,     \* the collection's points, in id order
          qLimit, qOffset,
          qFilters,  \* filter_subject, filter_sender, filter_url, filter_category
          qFormat,   \* "table", "json", "csv"
          qPoints,   \* the points left after filtering
          qOut,      \* what is printed
          qPc

queryVars == <<qColl, qLimit, qOffset, qFilters, qFormat, qPoints, qOut, qPc>>

\* one body going through strip_quoted_and_signature (get_gmail.py:42-50)
VARIABLES nzFrags,   \* EmailReplyParser.read(body).fragments: [content, quoted]
          nzOut,     \* the string returned
          nzPc

normVars == <<nzFrags, nzOut, nzPc>>

\* one message going through get_email_details (get_gmail.py:143-238)
VARIABLES wkPayload, \* msg["payload"]: its body data and its tree of parts
          wkBody,    \* body_text after line 225
          wkAtt,     \* attachments_text
          wkDoc,     \* full_text, the "text" of the record returned
          wkPc

walkVars == <<wkPayload, wkBody, wkAtt, wkDoc, wkPc>>

\* what each part leaves alone
notSync == <<chunkVars, attVars, queryVars, normVars, walkVars>>
notChunk == <<syncVars, attVars, queryVars, normVars, walkVars>>
notAttach == <<syncVars, chunkVars, queryVars, normVars, walkVars>>
notQuery == <<syncVars, chunkVars, attVars, normVars, walkVars>>
notNorm == <<syncVars, chunkVars, attVars, queryVars, walkVars>>
notWalk == <<syncVars, chunkVars, attVars, queryVars, normVars>>

\* ---------------------------------------------------------------- strings

Min(a, b) == IF a <= b THEN a ELSE b

\* the characters str.split() treats as separators
IsSpace(c) == c \in {" ", "\n", "\t"}

\* i is the first character of a word of t
IsWordStart(t, i) == /\ ~IsSpace(t[i])
                     /\ (i = 1 \/ IsSpace(t[i - 1]))

\* i is the last character of a word of t
IsWordEnd(t, i) == /\ ~IsSpace(t[i])
                   /\ (i = Len(t) \/ IsSpace(t[i + 1]))

\* the words of t, counted by their first characters
WordCount(t) == Cardinality({i \in 1..Len(t) : IsWordStart(t, i)})

\* text.split(): the maximal runs of non-whitespace characters, in order
Split(t) ==
    LET idxs   == [i \in 1..Len(t) |-> i]
        starts == SelectSeq(idxs, LAMBDA i : IsWordStart(t, i))
        ends   == SelectSeq(idxs, LAMBDA i : IsWordEnd(t, i))
    IN  [k \in 1..Len(starts) |-> SubSeq(t, starts[k], ends[k])]

\* " ".join(ws)
RECURSIVE JoinSpace(_)
JoinSpace(ws) ==
    IF Len(ws) = 0 THEN <<>>
    ELSE IF Len(ws) = 1 THEN ws[1]
    ELSE LET h == Len(ws) \div 2
         IN  JoinSpace(SubSeq(ws, 1, h)) \o <<" ">> \o JoinSpace(SubSeq(ws, h + 1, Len(ws)))

\* range(0, n, step): 0, step, 2*step, ... below n
RangeStep(n, step) == [j \in 1..((n + step - 1) \div step) |-> (j - 1) * step]

\* words[i : i + chunk_size] with i counted from 0 (the slice clamps at the end)
Slice(words, i, chunk_size) == SubSeq(words, i + 1, Min(i + chunk_size, Len(words)))

\* a plausible slip: the window's upper end taken as inclusive
chunk_text_wide(text, chunk_size) ==
    LET words == Split(text)
        at    == RangeStep(Len(words), chunk_size)
    IN  [j \in 1..Len(at) |-> JoinSpace(Slice(words, at[j], chunk_size + 1))]

\* chunk_text(text, chunk_size): the sequence of chunks the generator yields
chunk_text(text, chunk_size) ==
    LET words == Split(text)
        at    == RangeStep(Len(words), chunk_size)
    IN  [j \in 1..Len(at) |-> JoinSpace(Slice(words, at[j], chunk_size))]

\* ---------------------------------------------------------------- chunker run

MaxLen == 5
MaxK == 3

Alphabet == {"a", "b", " ", "\n"}

Texts == UNION {[1..n -> Alphabet] : n \in 0..MaxLen}

ChunkInit == /\ ctText \in Texts
             /\ ctK \in 1..MaxK
             /\ ctOut = <<>>
             /\ ctPc = "ready"

\* the caller drains the generator
RunChunk == /\ UNCHANGED notChunk
            /\ ctPc = "ready"
            /\ ctOut' = chunk_text(ctText, ctK)
            /\ ctPc' = "done"
            /\ UNCHANGED <<ctText, ctK>>

None == <<>>
Some(x) == <<x>>

\* ---------------------------------------------------------------- mail source

\* messages the mailbox may hold at the start, and changes that may follow
MaxArrivals == 2
MaxRuns == 2

max_results == 50
ingest_chunk_size == 200

\* the mailbox of n messages 1..n, newest first
MailboxOf(n) == [i \in 1..n |-> n + 1 - i]

\* n words "w" separated by single spaces
WordsText(n) == IF n = 0 THEN <<>>
                ELSE [i \in 1..(2 * n - 1) |-> IF i % 2 = 1 THEN "w" ELSE " "]

\* the normalized body of message m: message 1 fills one chunk exactly with
\* its header, message 2 runs one word over, message 3 has an empty body
BodyOf(m) == CASE m = 1 -> WordsText(ingest_chunk_size - 8)
               [] m = 2 -> WordsText(ingest_chunk_size - 7)
               [] m = 3 -> <<>>
               [] OTHER -> WordsText(1 + (m % 3))

SubjectOf(m) == IF m % 2 = 0 THEN <<"H", "i">> ELSE <<"R", "e">>
SenderOf(m) == <<"a", "@", "b">>
ToOf(m) == <<"m", "e">>
DateOf(m) == <<"d">>

\* the Composite Document assembled at the end of get_email_details
full_text(subject, sender, to, date, body_text) ==
    <<"S", "u", "b", "j", "e", "c", "t", ":", " ">> \o subject
    \o <<"\n", "F", "r", "o", "m", ":", " ">> \o sender
    \o <<"\n", "T", "o", ":", " ">> \o to
    \o <<"\n", "D", "a", "t", "e", ":", " ">> \o date
    \o <<"\n", "\n">> \o body_text

\* what get_email_details returns for message m
get_email_details(m) ==
    [id        |-> m,
     thread_id |-> m,
     subject   |-> SubjectOf(m),
     sender    |-> SenderOf(m),
     to        |-> ToOf(m),
     date      |-> DateOf(m),
     text      |-> full_text(SubjectOf(m), SenderOf(m), ToOf(m), DateOf(m), BodyOf(m))]

RECURSIVE Flatten(_)
Flatten(ss) ==
    IF Len(ss) = 0 THEN <<>>
    ELSE IF Len(ss) = 1 THEN ss[1]
    ELSE LET h == Len(ss) \div 2
         IN  Flatten(SubSeq(ss, 1, h)) \o Flatten(SubSeq(ss, h + 1, Len(ss)))

\* history().list(startHistoryId = c): the records after the cursor
HistoryList(log, c) == SelectSeq(log, LAMBDA h : h.id > c)

\* the ids appended while looping over the records' messages
HistoryMessageIds(records) == Flatten([k \in 1..Len(records) |-> records[k].messages])

\* messages().list(maxResults = n): the n most recent ids
MessagesList(mb, n) == SubSeq(mb, 1, Min(n, Len(mb)))

\* `if not message_ids`: None and the empty list alike
NeedsFallback(ids) == ids = None \/ ids = Some(<<>>)

\* a slip: the handler lets the failure of the change-log query through
AfterHistoryFailure_raise == "aborted"

\* the except clause of fetch_new_messages swallows the failure
AfterHistoryFailure == "check"

\* a slip: the cursor is saved only when something was listed
CursorToWrite_ifnew(old, ids, watermark) ==
    IF ids = <<>> THEN old ELSE Some(watermark)

\* the cursor file is rewritten with the profile's historyId
CursorToWrite(old, ids, watermark) == Some(watermark)

\* model.encode(chunk): the vector stands for the chunk it was computed from
Encode(chunk) == [of |-> chunk]

PointStruct(id, vector, payload) == [id |-> id, vector |-> vector, payload |-> payload]

\* a slip: every chunk of a message gets the message's first identifier
PointsOfMessage_sameid(m, counter) ==
    LET details == get_email_details(m)
        chunks  == chunk_text(details.text, ingest_chunk_size)
    IN  [j \in 1..Len(chunks) |->
            PointStruct(counter, Encode(chunks[j]), details)]

\* the points the loop body appends for one message, numbered from counter
PointsOfMessage(m, counter) ==
    LET details == get_email_details(m)
        chunks  == chunk_text(details.text, ingest_chunk_size)
    IN  [j \in 1..Len(chunks) |->
            PointStruct(counter + j - 1, Encode(chunks[j]), details)]

\* qdrant.upsert: a point replaces the stored point of the same id
Upsert(st, ps) ==
    LET ids == {ps[k].id : k \in 1..Len(ps)}
    IN  [i \in (DOMAIN st) \cup ids |->
            IF i \in ids
            THEN LET k == CHOOSE k \in 1..Len(ps) :
                              /\ ps[k].id = i
                              /\ \A l \in (k + 1)..Len(ps) : ps[l].id # i
                 IN  ps[k]
            ELSE st[i]]

InitMailboxSizes == {0, 1, 3, max_results + 1}

SyncInit == /\ mailbox \in {MailboxOf(n) : n \in InitMailboxSizes}
            /\ srvHistoryId = 100
            /\ srvHistory = <<>>
            /\ arrivals = 0
            /\ cursorFile = None
            /\ store = <<>>
            /\ collectionExists = FALSE
            /\ runs = 0
            /\ pc = "idle"
            /\ message_ids = None
            /\ historyOutcome = "pending"
            /\ fallbackCalls = 0
            /\ listedFrom = <<>>
            /\ fetched = FALSE
            /\ idx = 0
            /\ points = <<>>
            /\ point_id_counter = 0

BetweenRuns == pc \in {"idle", "done", "aborted"}

\* a new message reaches the mailbox; the change log records it
MailArrives ==
    /\ UNCHANGED notSync
    /\ pc \in {"idle", "done", "aborted", "history", "check", "profile"}
    /\ arrivals < MaxArrivals
    /\ arrivals' = arrivals + 1
    /\ LET m == Len(mailbox) + 1 IN
         /\ mailbox' = <<m>> \o mailbox
         /\ srvHistoryId' = srvHistoryId + 1
         /\ srvHistory' = Append(srvHistory, [id |-> srvHistoryId + 1, messages |-> <<m>>])
    /\ UNCHANGED <<cursorFile, store, collectionExists, runs, runVars>>

\* the change log gets another record that references the newest message
MessageTouched ==
    /\ UNCHANGED notSync
    /\ pc \in {"idle", "done", "aborted", "history", "check", "profile"}
    /\ arrivals < MaxArrivals
    /\ Len(mailbox) > 0
    /\ arrivals' = arrivals + 1
    /\ srvHistoryId' = srvHistoryId + 1
    /\ srvHistory' = Append(srvHistory,
                            [id |-> srvHistoryId + 1, messages |-> <<mailbox[1]>>])
    /\ UNCHANGED <<mailbox, cursorFile, store, collectionExists, runs, runVars>>

\* main starts and calls fetch_new_messages
StartRun ==
    /\ UNCHANGED notSync
    /\ BetweenRuns
    /\ runs < MaxRuns
    /\ runs' = runs + 1
    /\ pc' = "history"
    /\ message_ids' = None
    /\ historyOutcome' = "pending"
    /\ fallbackCalls' = 0
    /\ listedFrom' = <<>>
    /\ fetched' = FALSE
    /\ idx' = 0
    /\ points' = <<>>
    /\ point_id_counter' = 0
    /\ UNCHANGED <<srvVars, cursorFile, store, collectionExists>>

\* lines 107-127: the incremental branch
HistoryQuery ==
    /\ UNCHANGED notSync
    /\ pc = "history"
    /\ IF cursorFile = None
       THEN /\ message_ids' = None
            /\ historyOutcome' = "none"
            /\ pc' = "check"
       ELSE \/ /\ message_ids' =
                    Some(HistoryMessageIds(HistoryList(srvHistory, cursorFile[1])))
               /\ historyOutcome' = "ok"
               /\ pc' = "check"
            \/ /\ message_ids' = None
               /\ historyOutcome' = "failed"
               /\ pc' = AfterHistoryFailure
    /\ UNCHANGED <<srvVars, cursorFile, store, collectionExists, runs, fallbackCalls,
                   listedFrom, fetched, idx, points, point_id_counter>>

\* lines 129-132: the fallback listing, which may itself fail
FallbackCheck ==
    /\ UNCHANGED notSync
    /\ pc = "check"
    /\ IF NeedsFallback(message_ids)
       THEN /\ fallbackCalls' = fallbackCalls + 1
            /\ listedFrom' = mailbox
            /\ \/ /\ message_ids' = Some(MessagesList(mailbox, max_results))
                  /\ pc' = "profile"
               \/ /\ pc' = "aborted"
                  /\ UNCHANGED message_ids
       ELSE /\ pc' = "profile"
            /\ UNCHANGED <<message_ids, fallbackCalls, listedFrom>>
    /\ UNCHANGED <<srvVars, cursorFile, store, collectionExists, runs, historyOutcome,
                   fetched, idx, points, point_id_counter>>

\* lines 134-140: getProfile, the cursor file rewritten, the ids returned
SaveCursor ==
    /\ UNCHANGED notSync
    /\ pc = "profile"
    /\ \/ /\ cursorFile' = CursorToWrite(cursorFile, message_ids[1], srvHistoryId)
          /\ fetched' = TRUE
          /\ pc' = "ensure"
       \/ /\ pc' = "aborted"
          /\ UNCHANGED <<cursorFile, fetched>>
    /\ UNCHANGED <<srvVars, store, collectionExists, runs, message_ids, historyOutcome,
                   fallbackCalls, listedFrom, idx, points, point_id_counter>>

\* lines 250-263: the collection is created when it is not there
EnsureCollection ==
    /\ UNCHANGED notSync
    /\ pc = "ensure"
    /\ \/ /\ collectionExists' = TRUE
          /\ pc' = "process"
       \/ /\ pc' = "aborted"
          /\ UNCHANGED collectionExists
    /\ UNCHANGED <<srvVars, cursorFile, store, runs, message_ids, historyOutcome,
                   fallbackCalls, listedFrom, fetched, idx, points, point_id_counter>>

\* lines 268-273: one message fetched, chunked and embedded, or the run dies
ProcessMessage ==
    /\ UNCHANGED notSync
    /\ pc = "process"
    /\ idx < Len(message_ids[1])
    /\ \/ LET new == PointsOfMessage(message_ids[1][idx + 1], point_id_counter) IN
            /\ points' = points \o new
            /\ point_id_counter' = point_id_counter + Len(new)
            /\ idx' = idx + 1
            /\ UNCHANGED pc
       \/ /\ pc' = "aborted"
          /\ UNCHANGED <<idx, points, point_id_counter>>
    /\ UNCHANGED <<srvVars, cursorFile, store, collectionExists, runs, message_ids,
                   historyOutcome, fallbackCalls, listedFrom, fetched>>

\* lines 275-280: the single bulk write, skipped for an empty batch
BulkWrite ==
    /\ UNCHANGED notSync
    /\ pc = "process"
    /\ idx = Len(message_ids[1])
    /\ IF points # <<>>
       THEN \/ /\ store' = Upsert(store, points)
               /\ pc' = "done"
            \/ /\ pc' = "aborted"
               /\ UNCHANGED store
       ELSE /\ pc' = "done"
            /\ UNCHANGED store
    /\ UNCHANGED <<srvVars, cursorFile, collectionExists, runs, message_ids,
                   historyOutcome, fallbackCalls, listedFrom, fetched, idx, points,
                   point_id_counter>>

SyncNext == \/ MailArrives
            \/ MessageTouched
            \/ StartRun
            \/ HistoryQuery
            \/ FallbackCheck
            \/ SaveCursor
            \/ EnsureCollection
            \/ ProcessMessage
            \/ BulkWrite

SyncParked == /\ mailbox = <<>>
              /\ srvHistoryId = 0
              /\ srvHistory = <<>>
              /\ arrivals = 0
              /\ cursorFile = None
              /\ store = <<>>
              /\ collectionExists = FALSE
              /\ runs = 0
              /\ pc = "parked"
              /\ message_ids = None
              /\ historyOutcome = "pending"
              /\ fallbackCalls = 0
              /\ listedFrom = <<>>
              /\ fetched = FALSE
              /\ idx = 0
              /\ points = <<>>
              /\ point_id_counter = 0

\* ---------------------------------------------------------------- attachments

LowerChar(c) == CASE c = "A" -> "a" [] c = "B" -> "b" [] c = "C" -> "c"
                  [] c = "D" -> "d" [] c = "F" -> "f" [] c = "H" -> "h"
                  [] c = "J" -> "j" [] c = "N" -> "n" [] c = "O" -> "o"
                  [] c = "P" -> "p" [] c = "X" -> "x"
                  [] OTHER -> c

\* s.lower()
Lower(s) == [i \in 1..Len(s) |-> LowerChar(s[i])]

\* s.endswith(suffix)
EndsWith(s, suffix) ==
    /\ Len(s) >= Len(suffix)
    /\ SubSeq(s, Len(s) - Len(suffix) + 1, Len(s)) = suffix

IsPdfName(f) == EndsWith(Lower(f), <<".", "p", "d", "f">>)
IsDocxName(f) == EndsWith(Lower(f), <<".", "d", "o", "c", "x">>)

PageCap == 50
MaxChars == 100000
\* len("\n[Content truncated due to size limit]")
TruncMarkerLen == 38

\* a slip that drops the page cap
max_pages_uncapped(n) == n

\* max_pages = min(50, len(reader.pages))
max_pages(n) == Min(PageCap, n)

TextResult(n) == [kind |-> "text", len |-> n]
Placeholder == [kind |-> "placeholder"]
Raised == [kind |-> "raised"]
Skipped == [kind |-> "skipped"]
NoResult == [kind |-> "pending"]

ExtraPages == 3
NumPagesChoices == {0, 1, 2, PageCap, PageCap + 1, PageCap + ExtraPages}

\* len(page_text) of one page; 0 stands for an empty or missing page text
PageLens == {0, 49999, 99999, 100000, 150000}
DocLens == {0, 7}

Filenames == {None,
              Some(<<"a", ".", "p", "d", "f">>),
              Some(<<"A", ".", "P", "D", "F">>),
              Some(<<"n", ".", "d", "o", "c", "x">>),
              Some(<<"n", ".", "D", "o", "c", "X">>),
              Some(<<"p", "d", "f">>),
              Some(<<"a", ".", "p", "d", "f", ".", "t", "x", "t">>),
              Some(<<>>)}

AttachInit == /\ atSite \in {"extract", "walk"}
              /\ atFilename \in Filenames
              /\ atRef \in {"missing", "valid", "invalid"}
              /\ atParse \in {"ok", "fail"}
              /\ atNumPages \in NumPagesChoices
              /\ atDocLen \in DocLens
              /\ atI = 0
              /\ atLen = 0
              /\ atResult = NoResult
              /\ atPc = "start"

AttachFinish(result) == /\ atResult' = result
                        /\ atPc' = IF result = Raised THEN "raised" ELSE "done"

\* the PDF and DOCX branches, alike at both sites, up to the page loop;
\* other is what a filename with neither suffix gives
Dispatch(other) ==
    LET f == atFilename[1] IN
    IF IsPdfName(f)
    THEN IF atParse = "fail"
         THEN AttachFinish(Placeholder)           \* except around PdfReader
         ELSE /\ atPc' = "pages"
              /\ UNCHANGED atResult
    ELSE IF IsDocxName(f)
    THEN IF atParse = "fail"
         THEN AttachFinish(Placeholder)           \* except around docx.Document
         ELSE AttachFinish(TextResult(atDocLen))
    ELSE AttachFinish(other)

\* extract_attachment_text up to the page loop
ExtractBegin ==
    /\ UNCHANGED notAttach
    /\ atPc = "start"
    /\ atSite = "extract"
    /\ IF atRef = "missing" THEN AttachFinish(Raised)      \* KeyError, line 54
       ELSE IF atRef = "invalid" THEN AttachFinish(Raised)  \* base64 error, line 54
       ELSE IF atFilename = None THEN AttachFinish(Raised)  \* None.lower(), line 55
       ELSE Dispatch(TextResult(0))
    /\ UNCHANGED <<atSite, atFilename, atRef, atParse, atNumPages, atDocLen, atI, atLen>>

\* the attachment branch of walk_parts up to the page loop
WalkBegin ==
    /\ UNCHANGED notAttach
    /\ atPc = "start"
    /\ atSite = "walk"
    /\ IF atRef = "missing" THEN AttachFinish(Skipped)     \* if attach_id: is false
       ELSE IF atRef = "invalid" THEN AttachFinish(Raised)  \* fetch or base64 error
       ELSE IF atFilename = None THEN AttachFinish(Raised)  \* None.lower(), line 182
       ELSE Dispatch(Skipped)
    /\ UNCHANGED <<atSite, atFilename, atRef, atParse, atNumPages, atDocLen, atI, atLen>>

\* one iteration of the page loop; the page raises or gives n characters
PageStep ==
    /\ UNCHANGED notAttach
    /\ atPc = "pages"
    /\ atI < max_pages(atNumPages)
    /\ atI' = atI + 1
    /\ \/ /\ UNCHANGED <<atLen, atResult, atPc>>          \* except: continue
       \/ \E n \in PageLens :
             LET grown == IF n > 0 THEN atLen + n + 1 ELSE atLen IN
             IF grown > MaxChars
             THEN /\ atLen' = MaxChars + TruncMarkerLen    \* truncate and break
                  /\ AttachFinish(TextResult(MaxChars + TruncMarkerLen))
             ELSE /\ atLen' = grown
                  /\ UNCHANGED <<atResult, atPc>>
    /\ UNCHANGED <<atSite, atFilename, atRef, atParse, atNumPages, atDocLen>>

\* the loop ran out of pages
PagesEnd ==
    /\ UNCHANGED notAttach
    /\ atPc = "pages"
    /\ atI >= max_pages(atNumPages)
    /\ AttachFinish(TextResult(atLen))
    /\ UNCHANGED <<atSite, atFilename, atRef, atParse, atNumPages, atDocLen, atI, atLen>>

AttachNext == ExtractBegin \/ WalkBegin \/ PageStep \/ PagesEnd

AttachParked == /\ atSite = "extract"
                /\ atFilename = None
                /\ atRef = "missing"
                /\ atParse = "ok"
                /\ atNumPages = 0
                /\ atDocLen = 0
                /\ atI = 0
                /\ atLen = 0
                /\ atResult = NoResult
                /\ atPc = "parked"

\* ---------------------------------------------------------------- query engine

\* payload and filter values: a Python str, or a value of another type that
\* str() renders as s and that equals only itself
Str(s) == [t |-> "str", s |-> s]
Other(s) == [t |-> "other", s |-> s]

K_subject == <<"s", "u", "b", "j", "e", "c", "t">>
K_sender == <<"s", "e", "n", "d", "e", "r">>
K_url == <<"u", "r", "l">>
K_category == <<"c", "a", "t", "e", "g", "o", "r", "y">>

\* code points of the characters keys are made of
AlphaOrder == <<"a", "b", "c", "d", "e", "f", "g", "h", "i", "j", "k", "l", "m",
                "n", "o", "p", "q", "r", "s", "t", "u", "v", "w", "x", "y", "z">>
Ord(c) == CHOOSE i \in 1..Len(AlphaOrder) : AlphaOrder[i] = c

\* a < b as Python compares strings
LexLess(a, b) ==
    \E i \in 1..(Len(a) + 1) :
        /\ i <= Len(b)
        /\ \A j \in 1..(i - 1) : a[j] = b[j]
        /\ (i = Len(a) + 1 \/ Ord(a[i]) < Ord(b[i]))

\* sorted(keys)
RECURSIVE Sorted(_)
Sorted(keys) ==
    IF keys = {} THEN <<>>
    ELSE LET least == CHOOSE k \in keys : \A o \in keys \ {k} : LexLess(k, o)
         IN  <<least>> \o Sorted(keys \ {least})

\* needle in hay
Contains(hay, needle) ==
    \E i \in 0..(Len(hay) - Len(needle)) : SubSeq(hay, i + 1, i + Len(needle)) = needle

\* payload.get(key, "")
PayloadGet(payload, key) == IF key \in DOMAIN payload THEN payload[key] ELSE Str(<<>>)

\* `if filter_x:`: given, and neither None nor the empty string
Truthy(f) == f # None /\ f # Some(Str(<<>>))

\* the FieldCondition list, in the order the code appends
FilterConditions(f) ==
    (IF Truthy(f.subject) THEN <<[key |-> K_subject, value |-> f.subject[1]]>> ELSE <<>>)
    \o (IF Truthy(f.sender) THEN <<[key |-> K_sender, value |-> f.sender[1]]>> ELSE <<>>)
    \o (IF Truthy(f.url) THEN <<[key |-> K_url, value |-> f.url[1]]>> ELSE <<>>)
    \o (IF Truthy(f.category) THEN <<[key |-> K_category, value |-> f.category[1]]>> ELSE <<>>)

\* a slip: the comparison without .lower()
ConditionHolds_cased(point, cond) ==
    LET actual == PayloadGet(point.payload, cond.key) IN
    IF actual.t = "str" /\ cond.value.t = "str"
    THEN Contains(actual.s, cond.value.s)
    ELSE actual = cond.value

\* lines 96-108: one condition against one point
ConditionHolds(point, cond) ==
    LET actual == PayloadGet(point.payload, cond.key) IN
    IF actual.t = "str" /\ cond.value.t = "str"
    THEN Contains(Lower(actual.s), Lower(cond.value.s))
    ELSE actual = cond.value

\* lines 91-113
FilterPoints(pts, conds) ==
    IF Len(conds) > 0
    THEN SelectSeq(pts, LAMBDA p : \A c \in 1..Len(conds) : ConditionHolds(p, conds[c]))
    ELSE pts

\* client.scroll(limit, offset)[0]: up to limit points from id offset on
Scroll(coll, limit, offset) ==
    LET from == SelectSeq(coll, LAMBDA p : p.id >= offset)
    IN  SubSeq(from, 1, Min(limit, Len(from)))

\* value.replace('"', '""')
RECURSIVE EscapeQuotes(_)
EscapeQuotes(s) ==
    IF Len(s) = 0 THEN <<>>
    ELSE (IF s[1] = "\"" THEN <<"\"", "\"">> ELSE <<s[1]>>) \o EscapeQuotes(Tail(s))

Quoted(s) == <<"\"">> \o s \o <<"\"">>

\* ",".join(fields)
RECURSIVE JoinComma(_)
JoinComma(fields) ==
    IF Len(fields) = 0 THEN <<>>
    ELSE IF Len(fields) = 1 THEN fields[1]
    ELSE fields[1] \o <<",">> \o JoinComma(Tail(fields))

\* str(point.id) for the ids of the model
IdText(id) == <<CASE id = 0 -> "0" [] id = 1 -> "1" [] id = 2 -> "2"
                  [] id = 3 -> "3" [] OTHER -> "9">>

\* lines 164-170: one payload field of a row
CsvField(payload, key) ==
    LET value == PayloadGet(payload, key) IN
    IF value.t = "str"
    THEN Quoted(EscapeQuotes(value.s))
    ELSE Quoted(value.s)

\* lines 150-155
SortedKeys(pts) == Sorted(UNION {DOMAIN pts[k].payload : k \in 1..Len(pts)})

\* line 158
CsvHeader(keys) ==
    <<"i", "d", ",">> \o JoinComma([k \in 1..Len(keys) |-> Quoted(keys[k])])

\* lines 161-171: the row as the list of fields that is joined and printed
CsvRow(point, keys) ==
    <<IdText(point.id)>> \o [k \in 1..Len(keys) |-> CsvField(point.payload, keys[k])]

\* lines 115-171: what is printed for the points found
Render(pts, format) ==
    IF Len(pts) = 0 THEN [kind |-> "none"]
    ELSE IF format = "csv"
    THEN LET keys == SortedKeys(pts) IN
         [kind   |-> "csv",
          header |-> CsvHeader(keys),
          rows   |-> [k \in 1..Len(pts) |-> CsvRow(pts[k], keys)]]
    ELSE [kind |-> format, points |-> pts]

MaxPoints == 2

Payloads ==
    {<<>>,
     (K_sender :> Str(<<"J", "o">>)) @@ (K_subject :> Str(<<"a", "\"", "b">>)),
     (K_sender :> Str(<<"j", "O", "h">>)) @@ (K_subject :> Str(<<"H", "i">>))
        @@ (K_category :> Other(<<"5">>)),
     (K_subject :> Str(<<"H", "i">>)),
     (K_sender :> Str(<<"A", "n">>)) @@ (K_category :> Other(<<"[", "\"", "'", "\"", "]">>)),
     (K_sender :> Str(<<"J", "o">>)) @@ (K_category :> Str(<<"5">>))}

Collections ==
    UNION {{[i \in 1..n |-> [id |-> i - 1, payload |-> f[i]]] : f \in [1..n -> Payloads]}
              : n \in 0..MaxPoints}

FilterSets ==
    [subject  : {None, Some(Str(<<"B">>))},
     sender   : {None, Some(Str(<<>>)), Some(Str(<<"j", "o">>)), Some(Str(<<"O">>))},
     url      : {None, Some(Str(<<"x">>))},
     category : {None, Some(Str(<<"5">>)), Some(Other(<<"5">>))}]

QueryInit == /\ qColl \in Collections
             /\ qLimit \in {1, MaxPoints}
             /\ qOffset \in {0, 1}
             /\ qFilters \in FilterSets
             /\ qFormat \in {"table", "json", "csv"}
             /\ qPoints = <<>>
             /\ qOut = [kind |-> "pending"]
             /\ qPc = "ready"

\* query_all_points from the scroll to the last print
QueryAll ==
    /\ UNCHANGED notQuery
    /\ qPc = "ready"
    /\ LET found == FilterPoints(Scroll(qColl, qLimit, qOffset), FilterConditions(qFilters)) IN
         /\ qPoints' = found
         /\ qOut' = Render(found, qFormat)
    /\ qPc' = "done"
    /\ UNCHANGED <<qColl, qLimit, qOffset, qFilters, qFormat>>

QueryParked == /\ qColl = <<>>
               /\ qLimit = 0
               /\ qOffset = 0
               /\ qFilters = [subject |-> None, sender |-> None, url |-> None,
                              category |-> None]
               /\ qFormat = "table"
               /\ qPoints = <<>>
               /\ qOut = [kind |-> "pending"]
               /\ qPc = "parked"

\* ---------------------------------------------------------------- text normalizer

\* "\n".join(ss)
RECURSIVE JoinNewline(_)
JoinNewline(ss) ==
    IF Len(ss) = 0 THEN <<>>
    ELSE IF Len(ss) = 1 THEN ss[1]
    ELSE ss[1] \o <<"\n">> \o JoinNewline(Tail(ss))

\* the signature markers, in the order of the list at line 47
Markers == <<<<"\n", "-", "-">>,
             <<"\n", "T", "h", "a", "n", "k", "s">>,
             <<"\n", "B", "e", "s", "t", " ", "r", "e", "g", "a", "r", "d", "s">>,
             <<"\n", "S", "e", "n", "t", " ", "f", "r", "o", "m", " ", "m", "y">>>>

\* marker occurs in s starting at position i
OccursAt(s, marker, i) ==
    /\ i + Len(marker) - 1 <= Len(s)
    /\ SubSeq(s, i, i + Len(marker) - 1) = marker

\* s.split(marker)[0]: s up to the first occurrence of marker
SplitFirst(s, marker) ==
    LET at == {i \in 1..Len(s) : OccursAt(s, marker, i)}
    IN  IF at = {} THEN s
        ELSE SubSeq(s, 1, (CHOOSE i \in at : \A j \in at : i <= j) - 1)

\* line 45: the contents of the fragments that are not quoted, joined
NonQuoted(frags) ==
    JoinNewline([k \in 1..Len(SelectSeq(frags, LAMBDA f : ~f.quoted)) |->
                    SelectSeq(frags, LAMBDA f : ~f.quoted)[k].content])

\* a slip: the loop leaves at the first marker found
RECURSIVE MarkerLoop_break(_, _)
MarkerLoop_break(cleaned, k) ==
    IF k > Len(Markers) THEN cleaned
    ELSE IF Contains(cleaned, Markers[k])
    THEN SplitFirst(cleaned, Markers[k])
    ELSE MarkerLoop_break(cleaned, k + 1)

\* lines 47-49 from the k-th marker on: no marker ends the loop
RECURSIVE MarkerLoop(_, _)
MarkerLoop(cleaned, k) ==
    IF k > Len(Markers) THEN cleaned
    ELSE IF Contains(cleaned, Markers[k])
    THEN MarkerLoop(SplitFirst(cleaned, Markers[k]), k + 1)
    ELSE MarkerLoop(cleaned, k + 1)

\* s.strip()
Strip(s) ==
    LET solid == {i \in 1..Len(s) : ~IsSpace(s[i])}
    IN  IF solid = {} THEN <<>>
        ELSE SubSeq(s, CHOOSE i \in solid : \A j \in solid : i <= j,
                       CHOOSE i \in solid : \A j \in solid : i >= j)

\* strip_quoted_and_signature, from the parser's fragments on
strip_quoted_and_signature(frags) == Strip(MarkerLoop(NonQuoted(frags), 1))

MaxFrags == 4

FragContents == {<<>>,
                 <<"a">>,
                 <<" ", "b", " ">>,
                 <<"-", "-">>,
                 <<"T", "h", "a", "n", "k", "s", ",", " ", "x">>,
                 <<"B", "e", "s", "t", " ", "r", "e", "g", "a", "r", "d", "s">>,
                 <<"S", "e", "n", "t", " ", "f", "r", "o", "m", " ", "m", "y", " ", "p">>,
                 <<"c", "\n", "T", "h", "a", "n", "k", "s">>,
                 <<"a", "-", "-">>}

Fragments == [content : FragContents, quoted : {FALSE}]
                 \cup {[content |-> <<">", " ", "q">>, quoted |-> TRUE]}

NormInit == /\ nzFrags \in UNION {[1..n -> Fragments] : n \in 0..MaxFrags}
            /\ nzOut = <<>>
            /\ nzPc = "ready"

Normalize ==
    /\ UNCHANGED notNorm
    /\ nzPc = "ready"
    /\ nzOut' = strip_quoted_and_signature(nzFrags)
    /\ nzPc' = "done"
    /\ UNCHANGED nzFrags

NormParked == /\ nzFrags = <<>>
              /\ nzOut = <<>>
              /\ nzPc = "parked"

\* ---------------------------------------------------------------- MIME walker

M_text == "text/plain"
M_pdf == "application/pdf"
M_docx == "application/vnd.openxmlformats-officedocument.wordprocessingml.document"
M_mixed == "multipart/mixed"

\* one part of the tree: "data" and "attachmentId" are the entries of its
\* "body", None when absent; "yield" is the text the extraction branch of
\* lines 182-214 appends for the fetched attachment (page texts, paragraphs or
\* a failure placeholder; empty when a PDF has no page with text); "parts" is
\* None when the part has no "parts" key
Part(mime, data, filename, attach_id, yield, parts) ==
    [mimeType |-> mime, data |-> data, filename |-> filename,
     attachmentId |-> attach_id, yield |-> yield, parts |-> parts]

\* lines 160-164: a text/plain part with data adds it to body_text
AddBody(part, body_text) ==
    IF part.mimeType = M_text /\ part.data # None
    THEN body_text \o part.data[1]
    ELSE body_text

\* lines 165-214: a PDF or DOCX part with an attachment reference and a
\* file name ending in .pdf or .docx adds one text to attachments_text
AddAttachment(part, attachments_text) ==
    IF /\ part.mimeType \in {M_pdf, M_docx}
       /\ part.attachmentId # None
       /\ (IsPdfName(part.filename) \/ IsDocxName(part.filename))
    THEN Append(attachments_text, part.yield)
    ELSE attachments_text

\* walk_parts(parts) starting from acc = [body_text, attachments_text]: each
\* part first, then its own parts, then the next part
RECURSIVE walk_parts(_, _)
walk_parts(parts, acc) ==
    IF parts = <<>> THEN acc
    ELSE LET part == Head(parts)
             here == [body_text        |-> AddBody(part, acc.body_text),
                      attachments_text |-> AddAttachment(part, acc.attachments_text)]
             below == IF part.parts # None THEN walk_parts(part.parts[1], here)
                      ELSE here
         IN  walk_parts(Tail(parts), below)

\* lines 153-154, 218-223: what the traversal leaves in the two accumulators
Traverse(payload) ==
    IF payload.parts # None
    THEN walk_parts(payload.parts[1], [body_text |-> <<>>, attachments_text |-> <<>>])
    ELSE [body_text        |-> IF payload.data # None THEN payload.data[1] ELSE <<>>,
          attachments_text |-> <<>>]

\* EmailReplyParser.read(body).fragments for a body without quoted lines,
\* reply headers or signature lines: one fragment, not quoted, holding the
\* body without its surrounding whitespace
ReplyFragments(body) == <<[content |-> Strip(body), quoted |-> FALSE]>>

AttachmentsHeading == <<"\n", "\n", "A", "t", "t", "a", "c", "h", "m", "e", "n", "t", "s", ":", "\n">>

\* lines 227-228
with_attachments(text, attachments_text) ==
    IF attachments_text # <<>>
    THEN text \o AttachmentsHeading \o JoinNewline(attachments_text)
    ELSE text

\* the headers of the message walked
WalkSubject == SubjectOf(2)
WalkSender == SenderOf(2)
WalkTo == ToOf(2)
WalkDate == DateOf(2)

MaxParts == 2

\* bodies without quoted lines; the last one ends in a signature
BodyData == {None,
             Some(<<" ", "b", "\n">>),
             Some(<<"c", "\n", "T", "h", "a", "n", "k", "s">>)}

TextLeaves == {Part(M_text, d, <<>>, None, <<>>, None) : d \in BodyData}

\* attachments: a PDF without text, a PDF with text, a DOCX with text, a PDF
\* under a name that is neither .pdf nor .docx, and an inline PDF
AttachLeaves ==
    {Part(M_pdf, None, <<"r", ".", "P", "D", "F">>, Some("a1"), <<>>, None),
     Part(M_pdf, None, <<"r", ".", "P", "D", "F">>, Some("a2"), <<"A">>, None),
     Part(M_docx, None, <<"n", ".", "d", "o", "c", "x">>, Some("a3"), <<"B">>, None),
     Part(M_pdf, None, <<"x", ".", "t", "x", "t">>, Some("a4"), <<"A">>, None),
     Part(M_pdf, None, <<"r", ".", "P", "D", "F">>, None, <<"A">>, None)}

Leaves == TextLeaves \cup AttachLeaves

Multipart(parts) == Part(M_mixed, None, <<>>, None, <<>>, Some(parts))

Containers == {Multipart(<<>>)}
                  \cup {Multipart(<<a>>) : a \in Leaves}
                  \cup {Multipart(<<a, b>>) : a \in AttachLeaves, b \in AttachLeaves}

Payloads_walk ==
    {[data |-> d, parts |-> None] : d \in BodyData}
        \cup {[data |-> None, parts |-> Some(ps)] :
                 ps \in UNION {[1..n -> Leaves \cup Containers] : n \in 0..MaxParts}}

WalkInit == /\ wkPayload \in Payloads_walk
            /\ wkBody = <<>>
            /\ wkAtt = <<>>
            /\ wkDoc = <<>>
            /\ wkPc = "ready"

\* get_email_details from line 153 on
BuildDocument ==
    /\ UNCHANGED notWalk
    /\ wkPc = "ready"
    /\ LET acc  == Traverse(wkPayload)
           body == strip_quoted_and_signature(ReplyFragments(acc.body_text))
       IN  /\ wkBody' = body
           /\ wkAtt' = acc.attachments_text
           /\ wkDoc' = with_attachments(
                           full_text(WalkSubject, WalkSender, WalkTo, WalkDate, body),
                           acc.attachments_text)
    /\ wkPc' = "done"
    /\ UNCHANGED wkPayload

WalkParked == /\ wkPayload = [data |-> None, parts |-> None]
              /\ wkBody = <<>>
              /\ wkAtt = <<>>
              /\ wkDoc = <<>>
              /\ wkPc = "parked"

ChunkParked == /\ ctText = <<>>
               /\ ctK = 1
               /\ ctOut = <<>>
               /\ ctPc = "parked"

vars == <<syncVars, chunkVars, attVars, queryVars, normVars, walkVars>>

\* ingestion runs against the mail source and the store
Next == SyncNext

Init == SyncInit /\ ChunkParked /\ AttachParked /\ QueryParked /\ NormParked /\ WalkParked

Spec == Init /\ [][Next]_vars

NextChunk == RunChunk

InitChunk == ChunkInit /\ SyncParked /\ AttachParked /\ QueryParked /\ NormParked /\ WalkParked

SpecChunk == InitChunk /\ [][NextChunk]_vars

NextAttach == AttachNext

InitAttach == AttachInit /\ SyncParked /\ ChunkParked /\ QueryParked /\ NormParked /\ WalkParked

SpecAttach == InitAttach /\ [][NextAttach]_vars

NextQuery == QueryAll

InitQuery == QueryInit /\ SyncParked /\ ChunkParked /\ AttachParked /\ NormParked /\ WalkParked

SpecQuery == InitQuery /\ [][NextQuery]_vars

NextNorm == Normalize

InitNorm == NormInit /\ SyncParked /\ ChunkParked /\ AttachParked /\ QueryParked /\ WalkParked

SpecNorm == InitNorm /\ [][NextNorm]_vars

NextWalk == BuildDocument

InitWalk == WalkInit /\ SyncParked /\ ChunkParked /\ AttachParked /\ QueryParked /\ NormParked

SpecWalk == InitWalk /\ [][NextWalk]_vars

\* ---------------------------------------------------------------- C1, C8, C7

\* C1: when the change-log query succeeds with zero events (fetch_new_messages
\* stands before line 129 with an empty list), the fallback listing is not
\* invoked and the list stays empty.
C1_NoFallbackOnZeroEvents ==
    [][(pc = "check" /\ message_ids = Some(<<>>)) =>
          (fallbackCalls' = fallbackCalls /\ message_ids' = Some(<<>>))]_vars

\* C8: without a cursor, or when the change-log query raises, the failure does
\* not end the run: the fallback listing is called once and fetch_new_messages
\* returns exactly the first max_results ids of the mailbox, in listing order.
C8_FallbackListing ==
    /\ (historyOutcome = "failed" /\ pc = "aborted") => fallbackCalls = 1
    /\ (fetched /\ historyOutcome \in {"none", "failed"}) =>
          /\ fallbackCalls = 1
          /\ message_ids =
                Some([k \in 1..Min(max_results, Len(listedFrom)) |-> listedFrom[k]])

\* the change-log query failed and the listing was cut at max_results
C8_Witness ==
    /\ fetched
    /\ historyOutcome = "failed"
    /\ Len(listedFrom) > max_results
    /\ Len(message_ids[1]) = max_results

\* C7: the step that completes fetch_new_messages writes the server's current
\* watermark to the cursor file before any message is processed, and nothing
\* later in the run, an abort included, changes the file.
C7_CursorSavedOnListing ==
    [][/\ (~fetched /\ fetched') =>
            /\ cursorFile' = Some(srvHistoryId)
            /\ idx' = 0
            /\ points' = <<>>
            /\ store' = store
       /\ (fetched /\ fetched') => cursorFile' = cursorFile]_vars

\* a second run died while processing messages and the file holds the
\* watermark read in that run
C7_Witness ==
    /\ pc = "aborted"
    /\ fetched
    /\ runs = 2
    /\ idx > 0
    /\ arrivals > 0
    /\ cursorFile = Some(srvHistoryId)

\* ---------------------------------------------------------------- C2, C6

\* C2: a bulk write of n > 0 points grows the collection by n and leaves
\* every stored point as it was. Stated for the runs that took the incremental
\* path (the change log gave the ids, no fallback listing), where nothing but
\* new messages is ingested.
C2_RunsAreAdditive ==
    [][(pc = "process" /\ pc' = "done" /\ points # <<>> /\ fallbackCalls = 0) =>
          /\ Cardinality(DOMAIN store') = Cardinality(DOMAIN store) + Len(points)
          /\ \A i \in DOMAIN store : store'[i] = store[i]]_vars

\* chunks of a document at the ingestion chunk size, counted from its words
NumChunks(text) == (WordCount(text) + ingest_chunk_size - 1) \div ingest_chunk_size

C11_IdsReturnedOnce ==
    (fetched /\ historyOutcome = "ok" /\ fallbackCalls = 0) =>
        /\ \A i, j \in 1..Len(message_ids[1]) :
              i # j => message_ids[1][i] # message_ids[1][j]
        /\ \A m \in {message_ids[1][k] : k \in 1..idx} :
              Cardinality({k \in 1..idx : message_ids[1][k] = m}) = 1

\* ---------------------------------------------------------------- C12

\* out is s without its leading and trailing whitespace
IsTrimOf(out, s) ==
    /\ \A i \in 1..Len(out) : i \in {1, Len(out)} => ~IsSpace(out[i])
    /\ \E a \in 0..Len(s) :
          /\ a + Len(out) <= Len(s)
          /\ out = SubSeq(s, a + 1, a + Len(out))
          /\ \A i \in 1..Len(s) : (i <= a \/ i > a + Len(out)) => IsSpace(s[i])

\* the positions of s where the k-th marker occurs
MarkerAt(s, k) == {i \in 1..Len(s) : OccursAt(s, Markers[k], i)}

Least(S) == CHOOSE i \in S : \A j \in S : i <= j

\* C12 as claimed: one truncation only, at the first occurrence of the
\* first-listed marker that occurs in the non-quoted text; no later-listed
\* marker cuts further; without a marker the trimmed non-quoted text.
C12_FirstListedMarkerOnly ==
    nzPc = "done" =>
        LET c     == NonQuoted(nzFrags)
            found == {k \in 1..Len(Markers) : MarkerAt(c, k) # {}}
        IN  IF found = {} THEN IsTrimOf(nzOut, c)
            ELSE IsTrimOf(nzOut, SubSeq(c, 1, Least(MarkerAt(c, Least(found))) - 1))

\* C12 as amended: the markers are applied one after another, so the text is
\* cut at the earliest occurrence of any of the four markers; without a marker
\* the trimmed non-quoted text.
C12_EarliestMarkerCuts ==
    nzPc = "done" =>
        LET c  == NonQuoted(nzFrags)
            at == UNION {MarkerAt(c, k) : k \in 1..Len(Markers)}
        IN  IF at = {} THEN IsTrimOf(nzOut, c)
            ELSE IsTrimOf(nzOut, SubSeq(c, 1, Least(at) - 1))

\* a text holding "\nThanks" before "\n--" was cut at "\nThanks", a later
\* marker of the list than the one that was found first
C12_Witness ==
    /\ nzPc = "done"
    /\ LET c == NonQuoted(nzFrags) IN
         /\ MarkerAt(c, 1) # {}
         /\ MarkerAt(c, 2) # {}
         /\ Least(MarkerAt(c, 2)) < Least(MarkerAt(c, 1))
         /\ Len(nzOut) > 0
         /\ Len(nzOut) < Least(MarkerAt(c, 2))
         /\ \E k \in 1..Len(nzFrags) : nzFrags[k].quoted

\* ---------------------------------------------------------------- C13

\* the parts of a tree two levels deep, each part followed by its own parts
RECURSIVE Preorder(_)
Preorder(parts) ==
    IF parts = <<>> THEN <<>>
    ELSE <<Head(parts)>>
             \o (IF Head(parts).parts # None THEN Head(parts).parts[1] ELSE <<>>)
             \o Preorder(Tail(parts))

\* part is an attachment the walker processes
Processed(part) ==
    /\ part.mimeType \in {M_pdf, M_docx}
    /\ part.attachmentId # None
    /\ (IsPdfName(part.filename) \/ IsDocxName(part.filename))

\* the texts of the processed attachments of the message, in encounter order
AttachmentTexts(payload) ==
    IF payload.parts = None THEN <<>>
    ELSE LET hit == SelectSeq(Preorder(payload.parts[1]), Processed)
         IN  [i \in 1..Len(hit) |-> hit[i].yield]

\* C13: the document holds the "Attachments:" section exactly when some
\* attachment produced non-empty text; otherwise it is the header block, a
\* blank line and the normalized body; a section that is there lists the
\* attachment texts in depth-first encounter order.
C13_SectionIffNonEmptyText ==
    wkPc = "done" =>
        LET texts   == AttachmentTexts(wkPayload)
            some    == \E i \in 1..Len(texts) : texts[i] # <<>>
            base    == full_text(WalkSubject, WalkSender, WalkTo, WalkDate, wkBody)
            section == Contains(wkDoc, AttachmentsHeading)
        IN  /\ section <=> some
            /\ ~some => wkDoc = base
            /\ section => wkDoc = base \o AttachmentsHeading \o JoinNewline(texts)

\* ---------------------------------------------------------------- C9, C10

\* a filter that was given: not None and not the empty string
Given(f) == f # None /\ f[1] # Str(<<>>)

\* the payload has the field, and it is a string that contains the filter value
\* when both are compared letter by letter without regard to case, or it is
\* not a string and equals the filter value
FieldMatches(payload, key, v) ==
    /\ key \in DOMAIN payload
    /\ IF payload[key].t = "str"
       THEN /\ v.t = "str"
            /\ \E i \in 0..(Len(payload[key].s) - Len(v.s)) :
                  \A k \in 1..Len(v.s) :
                      LowerChar(payload[key].s[i + k]) = LowerChar(v.s[k])
       ELSE payload[key] = v

PointPasses(p) ==
    /\ Given(qFilters.subject) => FieldMatches(p.payload, K_subject, qFilters.subject[1])
    /\ Given(qFilters.sender) => FieldMatches(p.payload, K_sender, qFilters.sender[1])
    /\ Given(qFilters.url) => FieldMatches(p.payload, K_url, qFilters.url[1])
    /\ Given(qFilters.category) => FieldMatches(p.payload, K_category, qFilters.category[1])

\* C9: the points found are exactly the points of the fetched page that every
\* given filter matches, in page order; with no filter, the whole page.
C9_FilteredPage ==
    qPc = "done" =>
        LET page == Scroll(qColl, qLimit, qOffset) IN
        /\ qPoints = SelectSeq(page, PointPasses)
        /\ (\A k \in DOMAIN qFilters : ~Given(qFilters[k])) => qPoints = page

\* a lower-case sender filter picked the point whose sender spells it in
\* another case out of a page of two, and a point without the field exists
C9_Witness ==
    /\ qPc = "done"
    /\ qFilters.sender = Some(Str(<<"j", "o">>))
    /\ Len(Scroll(qColl, qLimit, qOffset)) = 2
    /\ Len(qPoints) = 1
    /\ qPoints[1].payload[K_sender] = Str(<<"j", "O", "h">>)
    /\ \E k \in 1..Len(qColl) : K_sender \notin DOMAIN qColl[k].payload

\* C10: the CSV header is id and the quoted keys of the sorted union of the
\* payload keys; every row has one field per column, and every payload field,
\* string or not, is its text with each double quote doubled, wrapped in
\* double quotes, a missing key giving an empty quoted field.
C10_CsvQuoting ==
    (qPc = "done" /\ qOut.kind = "csv") =>
        LET keys == SortedKeys(qPoints) IN
        /\ qOut.header = <<"i", "d", ",">>
                            \o JoinComma([k \in 1..Len(keys) |-> Quoted(keys[k])])
        /\ \A i, j \in 1..Len(keys) : i < j => LexLess(keys[i], keys[j])
        /\ Len(qOut.rows) = Len(qPoints)
        /\ \A r \in 1..Len(qOut.rows) :
              /\ Len(qOut.rows[r]) = 1 + Len(keys)
              /\ \A k \in 1..Len(keys) :
                    LET field == qOut.rows[r][k + 1]
                        p     == qPoints[r].payload
                    IN  IF keys[k] \in DOMAIN p
                        THEN field = Quoted(EscapeQuotes(p[keys[k]].s))
                        ELSE field = <<"\"", "\"">>

\* ---------------------------------------------------------------- C5

\* the document with every run of whitespace collapsed to one space and the
\* ends trimmed, computed character by character
RECURSIVE Collapse(_)
Collapse(t) ==
    IF Len(t) = 0 THEN <<>>
    ELSE LET head == Collapse(SubSeq(t, 1, Len(t) - 1))
             c    == t[Len(t)]
             \* whitespace seen since the last word character
             gap  == \E i \in 1..(Len(t) - 1) :
                        /\ IsSpace(t[i])
                        /\ \A j \in i..(Len(t) - 1) : IsSpace(t[j])
         IN  IF IsSpace(c) THEN head
             ELSE IF Len(head) > 0 /\ gap THEN head \o <<" ", c>>
             ELSE head \o <<c>>


\* C5: every chunk but the last has exactly K words, the last has 1..K words,
\* the chunks joined by single spaces are the whitespace-collapsed document,
\* and a document without words yields no chunk.
C5_ChunksPartitionDocument ==
    ctPc = "done" =>
        /\ \A j \in 1..(Len(ctOut) - 1) : WordCount(ctOut[j]) = ctK
        /\ Len(ctOut) > 0 =>
              /\ WordCount(ctOut[Len(ctOut)]) >= 1
              /\ WordCount(ctOut[Len(ctOut)]) <= ctK
        /\ JoinSpace(ctOut) = Collapse(ctText)
        /\ (WordCount(ctText) = 0) => (ctOut = <<>>)

\* a document of three words, one of them after a newline, was cut into a full chunk of two words and a short last chunk
C5_Witness ==
    /\ ctPc = "done"
    /\ ctK = 2
    /\ Len(ctOut) = 2
    /\ WordCount(ctOut[2]) = 1
    /\ \E i \in 1..Len(ctText) : ctText[i] = "\n"

\* ---------------------------------------------------------------- C3, C4

\* C3: attachment extraction never propagates an exception to its caller.
C3_NeverRaises == atPc # "raised"

\* C4: extraction is attempted on at most the first 50 pages, the page loop is
\* never entered again once the text has exceeded 100,000 characters, and the
\* returned text has at most 100,000 characters plus the truncation marker.
C4_PdfBounded ==
    /\ atI <= PageCap
    /\ atPc = "pages" => atLen <= MaxChars
    /\ (atPc = "done" /\ atResult.kind = "text") =>
           atResult.len <= MaxChars + TruncMarkerLen

\* a PDF of more than 50 pages went through 50 of them and returned exactly
\* 100,000 characters, untruncated
C4_Witness ==
    /\ atPc = "done"
    /\ atNumPages > PageCap
    /\ atI = PageCap
    /\ atResult = TextResult(MaxChars)

====
